---- MODULE Spec2Model ----
(***************************************************************************)
(* A model of the task graph, the cascade operations, the card layout,     *)
(* the reordering and the data file of the Todo Pipeline application       *)
(* (src/main5.0.0.py, "generation 5").                                     *)
(*                                                                         *)
(* The store self.tasks is a Python dict: a sequence of task records in    *)
(* insertion order, one per key.  Task ids are strings; they are modelled  *)
(* as integers, with EmptyId standing for the empty string "" (the one     *)
(* string Python treats as false) and NoId for None or an absent key.      *)
(* The creation time stamp is an integer that grows with every creation;   *)
(* 0 stands for the default '' of t.get('created', '').                    *)
(***************************************************************************)
EXTENDS Integers, Sequences, FiniteSets, TLC

VARIABLES
    tasks,            \* self.tasks
    prev_tasks,       \* history: the store a direct call of a cascade function
                      \* started on (SpecCascade)
    last_op,          \* history: the last handler that ran to its end, its
                      \* argument and the trace of its cascade calls
    current_view,     \* self.current_view
    sort_mode,        \* self.sort_mode
    view_mode,        \* self.view_mode
    card_zoom_level,  \* self.card_zoom_level, a float (see Float)
    task_positions,   \* self.task_positions, in insertion order
    render_log,       \* history: one record per _render_task_tree call of the last pass
    pc,               \* "idle", "pressed" (mouse button held on the canvas), or
                      \* "hung" when the UI thread never returns
    dragging,         \* self.dragging
    drag_task_id,     \* self.drag_task_id
    next_id,          \* number of ids handed out by uuid4 so far
    disk,             \* the data file todo_data.json (see File)
    fs                \* what the file system does to the next write: "ok",
                      \* "open_fails" or "write_fails"

vars == <<tasks, prev_tasks, last_op, current_view, sort_mode, view_mode,
          card_zoom_level, task_positions, render_log, pc, dragging,
          drag_task_id, next_id, disk, fs>>

(***************************************************************************)
(* Bounds of the model.                                                    *)
(***************************************************************************)
\* tasks created through the dialogs in one run of Spec
MaxCreate == 3
\* tasks in a store handed to the cascade functions (SpecCascade)
MaxLoaded == 3
\* nested calls after which Python raises RecursionError
RecursionLimit == 8
\* tasks in a store handed to the graph accessors (SpecAccess)
MaxAccess == 3
\* tasks in a store whose priorities are moved and dragged (SpecReorder)
MaxReorder == 3
\* tasks created through the dialogs in one run of SpecPersist
MaxSaved == 2
\* tasks in a well-formed store read from the data file (SpecLayout)
MaxForest == 4
\* tasks in an arbitrary store read from the data file (SpecLayout)
MaxMalformed == 2
\* cards drawn by one _render_task_tree call before the pass counts as endless
LayoutFuel == 10

(***************************************************************************)
(* Values.                                                                 *)
(***************************************************************************)
NoId == -1
EmptyId == 0
NoPriority == -1
Sentinel == 999

\* bool(workflow_sibling_of): None, an absent key and "" are false
Truthy(ref) == ref # NoId /\ ref # EmptyId

Task(id, parent_id, wso, completed, stashed, priority) ==
    [id |-> id, title |-> "t", completed |-> completed, stashed |-> stashed,
     parent_id |-> parent_id, workflow_sibling_of |-> wso,
     created |-> id + 1, priority |-> priority]

Range(s) == {s[i] : i \in DOMAIN s}
Ids(store) == {store[i].id : i \in DOMAIN store}
Get(store, id) == CHOOSE t \in Range(store) : t.id = id
IdsOf(store) == [i \in DOMAIN store |-> store[i].id]
Remove(store, id) == SelectSeq(store, LAMBDA t : t.id # id)
Put(store, t) == [i \in DOMAIN store |-> IF store[i].id = t.id THEN t ELSE store[i]]

(***************************************************************************)
(* list.sort(key=...): a stable sort, ascending in the key.  Keys are      *)
(* tuples of integers compared as Python compares tuples.                  *)
(***************************************************************************)
RECURSIVE KeyLeq(_, _)
KeyLeq(a, b) ==
    IF a = <<>> THEN TRUE
    ELSE IF b = <<>> THEN FALSE
    ELSE IF Head(a) < Head(b) THEN TRUE
    ELSE IF Head(a) > Head(b) THEN FALSE
    ELSE KeyLeq(Tail(a), Tail(b))

RECURSIVE InsertByKey(_, _, _)
InsertByKey(sorted, x, key) ==
    IF sorted = <<>> THEN <<x>>
    ELSE IF KeyLeq(key[Head(sorted)], key[x])
         THEN <<Head(sorted)>> \o InsertByKey(Tail(sorted), x, key)
         ELSE <<x>> \o sorted

RECURSIVE SortByKey(_, _)
SortByKey(s, key) ==
    IF s = <<>> THEN <<>>
    ELSE InsertByKey(SortByKey(SubSeq(s, 1, Len(s) - 1), key), s[Len(s)], key)

\* t.get('priority', 999) and t.get('priority', 0)
PriorityGet999(t) == IF t.priority = NoPriority THEN Sentinel ELSE t.priority
PriorityGet0(t) == IF t.priority = NoPriority THEN 0 ELSE t.priority

\* t.get('priority', 999) or 999
PriorityOr999(t) ==
    IF t.priority = NoPriority \/ t.priority = 0 THEN Sentinel ELSE t.priority

(***************************************************************************)
(* Graph accessors.                                                        *)
(***************************************************************************)
get_subtasks(store, parent_id) ==
    LET subtasks == SelectSeq(store, LAMBDA t :
                        t.parent_id = parent_id /\ ~Truthy(t.workflow_sibling_of))
    IN  SortByKey(IdsOf(subtasks),
                  [i \in Ids(subtasks) |-> <<PriorityOr999(Get(subtasks, i))>>])

\* workflow siblings left in the order of the store
SiblingsInStoreOrder(store, task_id) ==
    IdsOf(SelectSeq(store, LAMBDA t : t.workflow_sibling_of = task_id))

get_workflow_siblings(store, task_id) ==
    LET siblings == SelectSeq(store, LAMBDA t : t.workflow_sibling_of = task_id)
    IN  SortByKey(IdsOf(siblings),
                  [i \in Ids(siblings) |-> <<Get(siblings, i).created>>])

(***************************************************************************)
(* Cascade operations.  A cascade state c holds the store, the trace of    *)
(* the calls made so far and whether RecursionError was raised; once it is *)
(* raised every enclosing call is abandoned.                               *)
(***************************************************************************)
RECURSIVE _delete_recursive(_, _, _)
RECURSIVE DeleteEach(_, _, _)

DeleteEach(c, ids, depth) ==
    IF ids = <<>> \/ c.err THEN c
    ELSE DeleteEach(_delete_recursive(c, Head(ids), depth), Tail(ids), depth)

\* a delete that forgets the workflow siblings
DeleteSubtasksOnly(c, task_id, depth) ==
    IF depth > RecursionLimit THEN [c EXCEPT !.err = TRUE]
    ELSE LET c0 == [c EXCEPT !.calls = Append(@, task_id)]
             c1 == DeleteEach(c0, get_subtasks(c0.tasks, task_id), depth + 1)
         IN  IF c1.err THEN c1
             ELSE [c1 EXCEPT !.tasks = Remove(@, task_id)]

_delete_recursive(c, task_id, depth) ==
    IF depth > RecursionLimit THEN [c EXCEPT !.err = TRUE]
    ELSE LET c0 == [c EXCEPT !.calls = Append(@, task_id)]
             c1 == DeleteEach(c0, get_subtasks(c0.tasks, task_id), depth + 1)
             c2 == IF c1.err THEN c1
                   ELSE DeleteEach(c1, get_workflow_siblings(c1.tasks, task_id),
                                   depth + 1)
         IN  IF c2.err THEN c2
             ELSE [c2 EXCEPT !.tasks = Remove(@, task_id)]

RECURSIVE _set_stash_recursive(_, _, _, _)
RECURSIVE SetStashEach(_, _, _, _)

SetStashEach(c, ids, stashed, depth) ==
    IF ids = <<>> \/ c.err THEN c
    ELSE SetStashEach(_set_stash_recursive(c, Head(ids), stashed, depth),
                      Tail(ids), stashed, depth)

\* a stash cascade that leaves the completed flag alone
SetStashKeepCompleted(c, task_id, stashed, depth) ==
    IF depth > RecursionLimit THEN [c EXCEPT !.err = TRUE]
    ELSE IF task_id \notin Ids(c.tasks) THEN c
    ELSE LET t  == Get(c.tasks, task_id)
             c0 == [c EXCEPT !.calls = Append(@, task_id),
                             !.tasks = Put(@, [t EXCEPT !.stashed = stashed])]
             c1 == SetStashEach(c0, get_subtasks(c0.tasks, task_id), stashed,
                                depth + 1)
         IN  IF c1.err THEN c1
             ELSE SetStashEach(c1, get_workflow_siblings(c1.tasks, task_id),
                               stashed, depth + 1)

_set_stash_recursive(c, task_id, stashed, depth) ==
    IF depth > RecursionLimit THEN [c EXCEPT !.err = TRUE]
    ELSE IF task_id \notin Ids(c.tasks) THEN c
    ELSE LET t  == Get(c.tasks, task_id)
             t1 == [t EXCEPT !.stashed = stashed,
                             !.completed = IF stashed THEN FALSE ELSE @]
             c0 == [c EXCEPT !.calls = Append(@, task_id),
                             !.tasks = Put(@, t1)]
             c1 == SetStashEach(c0, get_subtasks(c0.tasks, task_id), stashed,
                                depth + 1)
         IN  IF c1.err THEN c1
             ELSE SetStashEach(c1, get_workflow_siblings(c1.tasks, task_id),
                               stashed, depth + 1)

Cascade(store) == [tasks |-> store, calls |-> <<>>, err |-> FALSE]

\* last_op: the handler (a handler that only changes the view is recorded as the
\* refresh_pipeline it ends with, with repeat telling that it changed nothing);
\* saved tells that its save_data wrote the file, warned that it returned
\* after messagebox.showwarning
Op(name, task, c) ==
    [name |-> name, task |-> task, calls |-> c.calls, err |-> c.err,
     repeat |-> FALSE, saved |-> FALSE, warned |-> FALSE]

(***************************************************************************)
(* The data file.  json.dump writes the dict as one JSON object with a     *)
(* member per task, in the order of the dict; a task is a JSON object      *)
(* whose members are strings, numbers, true, false or null, and a key the  *)
(* task does not have gives no member.  json.load reads it back.  The      *)
(* file is absent, written by a json.dump that ran to its end, or partial: *)
(* open(file, 'w') empties the file before json.dump writes to it.         *)
(***************************************************************************)
JsonAbsent == [json |-> "absent", val |-> 0]
JsonNull == [json |-> "null", val |-> 0]
JsonBool(b) == [json |-> IF b THEN "true" ELSE "false", val |-> 0]
JsonNumber(n) == [json |-> "number", val |-> n]
JsonString(s) == [json |-> "string", val |-> s]

to_json(t) ==
    [id |-> JsonString(t.id),
     title |-> JsonString(t.title),
     completed |-> JsonBool(t.completed),
     stashed |-> JsonBool(t.stashed),
     parent_id |-> IF t.parent_id = NoId THEN JsonNull ELSE JsonString(t.parent_id),
     workflow_sibling_of |-> IF t.workflow_sibling_of = NoId THEN JsonAbsent
                             ELSE JsonString(t.workflow_sibling_of),
     created |-> IF t.created = 0 THEN JsonAbsent ELSE JsonString(t.created),
     priority |-> IF t.priority = NoPriority THEN JsonAbsent
                  ELSE JsonNumber(t.priority)]

from_json(o) ==
    [id |-> o.id.val,
     title |-> o.title.val,
     completed |-> o.completed.json = "true",
     stashed |-> o.stashed.json = "true",
     parent_id |-> IF o.parent_id.json = "string" THEN o.parent_id.val ELSE NoId,
     workflow_sibling_of |-> IF o.workflow_sibling_of.json = "string"
                             THEN o.workflow_sibling_of.val ELSE NoId,
     created |-> IF o.created.json = "string" THEN o.created.val ELSE 0,
     priority |-> IF o.priority.json = "number" THEN o.priority.val ELSE NoPriority]

\* the stashed member left out of every task
DumpWithoutStashed(store) ==
    [i \in DOMAIN store |->
        [key |-> store[i].id, value |-> [to_json(store[i]) EXCEPT !.stashed = JsonAbsent]]]

json_dump(store) ==
    [i \in DOMAIN store |-> [key |-> store[i].id, value |-> to_json(store[i])]]

json_load(text) == [i \in DOMAIN text |-> from_json(text[i].value)]

NoFile == [state |-> "absent", text |-> <<>>]
File(text) == [state |-> "written", text |-> text]
Partial == [state |-> "partial", text |-> <<>>]

\* save_data: an exception of open leaves the file as it was, an exception
\* of the write leaves what was written of it
save_data(store, file, outcome) ==
    CASE outcome = "ok" -> File(json_dump(store))
      [] outcome = "open_fails" -> file
      [] outcome = "write_fails" -> Partial

\* load_data: no file, or a file json.load raises on, gives the empty dict
load_data(file) ==
    IF file.state = "written" THEN json_load(file.text) ELSE <<>>

(***************************************************************************)
(* The zoom level is a Python float that moves in steps of 0.1.  A float   *)
(* is kept as its nearest tenth and its excess over that tenth in units of *)
(* 2^-56 / 5, which is how IEEE 754 double addition rounds the values that *)
(* are reachable from 1.0 in steps of 0.1:  1.0 + 0.1 = 1.1 + 32 units,    *)
(* 1.0 - 0.1 = 0.9 + 8 units, 0.6 - 0.1 = 0.5 + 40 units, and so on.       *)
(***************************************************************************)
Float(tenths, excess) == [tenths |-> tenths, excess |-> excess]
One == Float(10, 0)
FloatLess(a, b) ==
    a.tenths < b.tenths \/ (a.tenths = b.tenths /\ a.excess < b.excess)
\* z + 0.1 and z - 0.1 in double arithmetic
PlusTenth(z) ==
    Float(z.tenths + 1, IF z.tenths >= 10 THEN z.excess + 32 ELSE z.excess - 8)
MinusTenth(z) ==
    Float(z.tenths - 1, IF z.tenths > 10 THEN z.excess - 32 ELSE z.excess + 8)
\* int(base * z)
Scaled(base, z) ==
    IF z.excess < 0 /\ (base * z.tenths) % 10 = 0
    THEN (base * z.tenths) \div 10 - 1
    ELSE (base * z.tenths) \div 10

base_card_width == 240
base_card_height == 120
base_card_spacing_h == 60
base_card_spacing_v == 50
base_level_indent == 30
card_width(z) == Scaled(base_card_width, z)
card_height(z) == Scaled(base_card_height, z)
card_spacing_h(z) == Scaled(base_card_spacing_h, z)
card_spacing_v(z) == Scaled(base_card_spacing_v, z)
level_indent(z) == Scaled(base_level_indent, z)

(***************************************************************************)
(* Card layout.  A card is the rectangle _draw_task_card stores in         *)
(* task_positions under the task id.                                       *)
(***************************************************************************)
Card(task_id, x, y, z) ==
    [id |-> task_id, x |-> x, y |-> y, w |-> card_width(z), h |-> card_height(z)]

\* self.task_positions[task_id] = (...): a dict keeps the place of a key it has
SetPosition(positions, card) ==
    IF \E i \in DOMAIN positions : positions[i].id = card.id
    THEN [i \in DOMAIN positions |->
             IF positions[i].id = card.id THEN card ELSE positions[i]]
    ELSE Append(positions, card)

RECURSIVE SetPositions(_, _)
SetPositions(positions, cards) ==
    IF cards = <<>> THEN positions
    ELSE SetPositions(SetPosition(positions, Head(cards)), Tail(cards))

Max(a, b) == IF a >= b THEN a ELSE b

\* the queue entries of the subtasks: to the right, one column each
SubtaskEntries(ids, curr_x, curr_y, z) ==
    [i \in DOMAIN ids |->
        [id |-> ids[i],
         x |-> curr_x + i * (card_width(z) + card_spacing_h(z)),
         y |-> curr_y]]

\* the queue entries of the workflow siblings: below, indented, one row each
WorkflowEntries(ids, curr_x, curr_y, z) ==
    [i \in DOMAIN ids |->
        [id |-> ids[i],
         x |-> curr_x + level_indent(z),
         y |-> curr_y + card_height(z) + card_spacing_v(z)
                 + (i - 1) * (card_height(z) + card_spacing_v(z))]]

\* the while loop of _render_task_tree; drawn counts the cards of this call
RECURSIVE LayoutLoop(_, _, _, _, _)
LayoutLoop(store, z, layout_queue, cards, max_y_used) ==
    IF layout_queue = <<>>
    THEN [cards |-> cards, max_y_used |-> max_y_used, hung |-> FALSE]
    ELSE IF Len(cards) >= LayoutFuel
    THEN [cards |-> cards, max_y_used |-> max_y_used, hung |-> TRUE]
    ELSE LET e == Head(layout_queue)
             rest == Tail(layout_queue)
         IN  IF e.id \notin Ids(store)
             THEN LayoutLoop(store, z, rest, cards, max_y_used)
             ELSE LayoutLoop(store, z,
                     rest \o SubtaskEntries(get_subtasks(store, e.id), e.x, e.y, z)
                          \o WorkflowEntries(get_workflow_siblings(store, e.id),
                                             e.x, e.y, z),
                     Append(cards, Card(e.id, e.x, e.y, z)),
                     Max(max_y_used, e.y + card_height(z)))

\* a _render_task_tree whose return value is the height of one card
RenderOneCardHigh(store, z, task_id, x, y) ==
    LET r == LayoutLoop(store, z, <<[id |-> task_id, x |-> x, y |-> y]>>, <<>>, y)
    IN  [root |-> task_id, x |-> x, y |-> y, cards |-> r.cards, hung |-> r.hung,
         ret |-> card_height(z)]

_render_task_tree(store, z, task_id, x, y) ==
    LET r == LayoutLoop(store, z, <<[id |-> task_id, x |-> x, y |-> y]>>, <<>>, y)
    IN  [root |-> task_id, x |-> x, y |-> y, cards |-> r.cards, hung |-> r.hung,
         ret |-> r.max_y_used - y + card_height(z)]

\* the connectors _render_task_tree draws when it takes a card off the queue:
\* an arrow from the right edge of the card to the first subtask (idx == 0),
\* and a line with a dot from the bottom of the card down to the first
\* workflow sibling; a connector runs from (x1, y1) to its tip (x2, y2)
ConnectorsOf(store, z, card) ==
    LET subtask_x == card.x + card_width(z) + card_spacing_h(z)
        line_y == card.y + card_height(z) \div 2
        workflow_y == card.y + card_height(z) + card_spacing_v(z)
        line_start_x == card.x + card_width(z) \div 2
        line_end_y == workflow_y - Scaled(20, z)
    IN  (IF get_subtasks(store, card.id) # <<>>
         THEN <<[kind |-> "arrow", x1 |-> card.x + card_width(z), y1 |-> line_y,
                 x2 |-> subtask_x - Scaled(10, z), y2 |-> line_y]>>
         ELSE <<>>)
        \o
        (IF get_workflow_siblings(store, card.id) # <<>>
         THEN <<[kind |-> "line", x1 |-> line_start_x, y1 |-> card.y + card_height(z),
                 x2 |-> line_start_x, y2 |-> line_end_y + Scaled(5, z)]>>
         ELSE <<>>)

\* the connectors on the canvas after a pass that drew the cards
RECURSIVE Connectors(_, _, _)
Connectors(store, z, cards) ==
    IF cards = <<>> THEN <<>>
    ELSE ConnectorsOf(store, z, Head(cards)) \o Connectors(store, z, Tail(cards))

IsRoot(t) == t.parent_id = NoId /\ ~Truthy(t.workflow_sibling_of)

InView(t, view) ==
    CASE view = "todo"  -> ~t.completed /\ ~t.stashed
      [] view = "done"  -> t.completed
      [] view = "stash" -> t.stashed
      [] OTHER -> FALSE

root_tasks(store, view, sort) ==
    LET roots == SelectSeq(store, LAMBDA t : IsRoot(t) /\ InView(t, view))
    IN  SortByKey(IdsOf(roots),
            [i \in Ids(roots) |->
                IF sort = "priority"
                THEN <<PriorityOr999(Get(roots, i)), Get(roots, i).created>>
                ELSE <<Get(roots, i).created>>])

RootX == 40
RootAnchor == 40
RootGap == 40

\* the for loop over the root tasks: each tree below the one before
RECURSIVE RenderRoots(_, _, _, _, _)
RenderRoots(store, z, roots, current_y, log) ==
    IF roots = <<>> THEN log
    ELSE LET r == _render_task_tree(store, z, Head(roots), RootX, current_y)
         IN  IF r.hung THEN Append(log, r)
             ELSE RenderRoots(store, z, Tail(roots), current_y + r.ret + RootGap,
                              Append(log, r))

RECURSIVE AllCards(_)
AllCards(log) == IF log = <<>> THEN <<>> ELSE Head(log).cards \o AllCards(Tail(log))

\* a refresh that keeps the old cards and lays the new pass out below them
RefreshBelowOld(store, view, sort, z, old_positions) ==
    LET bottoms == {c.y + c.h : c \in Range(old_positions)}
        start == IF bottoms = {} THEN RootAnchor
                 ELSE (CHOOSE b \in bottoms : \A o \in bottoms : o <= b) + RootGap
        log == RenderRoots(store, z, root_tasks(store, view, sort), start, <<>>)
    IN  [task_positions |-> SetPositions(<<>>, AllCards(log)),
         render_log |-> log,
         hung |-> \E i \in DOMAIN log : log[i].hung]

\* refresh_pipeline in card mode; task_positions is emptied first
refresh_pipeline(store, view, sort, z, old_positions) ==
    LET log == RenderRoots(store, z, root_tasks(store, view, sort), RootAnchor, <<>>)
    IN  [task_positions |-> SetPositions(<<>>, AllCards(log)),
         render_log |-> log,
         hung |-> \E i \in DOMAIN log : log[i].hung]

(***************************************************************************)
(* SpecCascade: the cascade functions applied to any store of at most      *)
(* MaxLoaded tasks, as load_data can read one from the data file: every    *)
(* reference is None, "" or any id, so cycles and self references occur.   *)
(***************************************************************************)
LoadedIds(n) == 0 .. (n - 1)
Refs(n) == {NoId} \cup LoadedIds(n)
Status == {<<FALSE, FALSE>>, <<TRUE, FALSE>>, <<FALSE, TRUE>>}

\* a task whose workflow_sibling_of is set is no subtask and no root:
\* its parent_id is read by nobody, and is left None here
LoadedTask(id, n, statuses) ==
    {Task(id, p, w, s[1], s[2], id + 1) :
        p \in Refs(n), w \in Refs(n), s \in statuses} \
    {Task(id, p, w, s[1], s[2], id + 1) :
        p \in LoadedIds(n), w \in LoadedIds(n) \ {EmptyId}, s \in statuses}

\* the stores of n tasks with the ids "" (EmptyId), 1, .. n - 1
StoresOf(n, statuses) ==
    {s \in [1 .. n -> UNION {LoadedTask(i, n, statuses) : i \in LoadedIds(n)}] :
        \A i \in 1 .. n : s[i].id = i - 1}

LoadedStores == UNION {StoresOf(n, Status) : n \in 0 .. MaxLoaded}

NotDragging == dragging = FALSE /\ drag_task_id = NoId

UiIdle ==
    /\ current_view = "todo" /\ sort_mode = "priority" /\ view_mode = "card"
    /\ card_zoom_level = One /\ task_positions = <<>> /\ render_log = <<>>
    /\ pc = "idle" /\ NotDragging

InitCascade ==
    /\ tasks \in LoadedStores
    /\ disk = File(json_dump(tasks)) /\ fs = "ok"
    /\ prev_tasks = tasks
    /\ last_op = Op("load_data", NoId, Cascade(tasks))
    /\ next_id = 0
    /\ UiIdle

UiUnchanged ==
    UNCHANGED <<current_view, sort_mode, view_mode, card_zoom_level,
                task_positions, render_log, pc, dragging, drag_task_id, next_id,
                disk, fs>>

CallDeleteRecursive(task_id) ==
    LET c == _delete_recursive(Cascade(tasks), task_id, 1)
    IN  /\ tasks' = c.tasks
        /\ prev_tasks' = tasks
        /\ last_op' = Op("_delete_recursive", task_id, c)
        /\ UiUnchanged

CallSetStashRecursive(task_id) ==
    LET new_stashed == ~Get(tasks, task_id).stashed
        c == _set_stash_recursive(Cascade(tasks), task_id, new_stashed, 1)
    IN  /\ tasks' = c.tasks
        /\ prev_tasks' = tasks
        /\ last_op' = Op("toggle_stash_status", task_id, c)
        /\ UiUnchanged

\* each store is an input of one call
NextCascade ==
    /\ last_op.name = "load_data"
    /\ \E task_id \in Ids(tasks) :
           \/ CallDeleteRecursive(task_id)
           \/ CallSetStashRecursive(task_id)

SpecCascade == InitCascade /\ [][NextCascade]_vars

(***************************************************************************)
(* SpecAccess: the graph accessors applied to any store of at most         *)
(* MaxAccess tasks: for get_subtasks the tasks differ in parent_id,        *)
(* workflow_sibling_of and priority (absent, 0, or more), for              *)
(* get_workflow_siblings in workflow_sibling_of and created (absent or     *)
(* set, in any order).  last_op.calls holds the list returned.             *)
(***************************************************************************)
AccessIds(n) == 1 .. n
Priorities == {NoPriority, 0, 1, 2}
Createds == {0, 1, 2}

SubtaskStores(n) ==
    {s \in [1 .. n -> {Task(id, parent_id, wso, FALSE, FALSE, priority) :
                           id \in AccessIds(n), parent_id \in {NoId, 1},
                           wso \in {NoId, 1}, priority \in Priorities}] :
        \A i \in 1 .. n : s[i].id = i}

SiblingStores(n) ==
    {s \in [1 .. n -> {[Task(id, NoId, wso, FALSE, FALSE, id) EXCEPT !.created = created] :
                           id \in AccessIds(n), wso \in {NoId, 1, 2},
                           created \in Createds}] :
        \A i \in 1 .. n : s[i].id = i}

\* the sibling stores hold one task more, so that a sibling of a sibling
\* comes next to two direct siblings
AccessStores ==
    UNION {SubtaskStores(n) : n \in 0 .. MaxAccess}
    \cup UNION {SiblingStores(n) : n \in 0 .. MaxAccess + 1}

InitAccess ==
    /\ tasks \in AccessStores
    /\ disk = File(json_dump(tasks)) /\ fs = "ok"
    /\ prev_tasks = tasks
    /\ last_op = Op("load_data", NoId, Cascade(tasks))
    /\ next_id = 0
    /\ UiIdle

Returns(name, arg, result) ==
    /\ last_op' = [Op(name, arg, Cascade(tasks)) EXCEPT !.calls = result]
    /\ UNCHANGED <<tasks, prev_tasks>>
    /\ UiUnchanged

CallGetSubtasks(parent_id) ==
    Returns("get_subtasks", parent_id, get_subtasks(tasks, parent_id))

CallGetWorkflowSiblings(task_id) ==
    Returns("get_workflow_siblings", task_id, get_workflow_siblings(tasks, task_id))

\* generation 2 (src/main2.0.0.py): the direct siblings, found and sorted as
\* in generation 5, then the list of each of them in turn; beyond
\* RecursionLimit nested calls Python raises RecursionError
Gen2DirectOnly(store, task_id, depth) ==
    [list |-> get_workflow_siblings(store, task_id), err |-> FALSE]

RECURSIVE gen2_get_workflow_siblings(_, _, _)
RECURSIVE Gen2Extend(_, _, _, _)
Gen2Extend(store, siblings, all_siblings, depth) ==
    IF siblings = <<>> THEN [list |-> all_siblings, err |-> FALSE]
    ELSE LET r == gen2_get_workflow_siblings(store, Head(siblings), depth + 1)
         IN  IF r.err THEN r
             ELSE Gen2Extend(store, Tail(siblings), all_siblings \o r.list, depth)

gen2_get_workflow_siblings(store, task_id, depth) ==
    IF depth > RecursionLimit THEN [list |-> <<>>, err |-> TRUE]
    ELSE LET siblings == get_workflow_siblings(store, task_id)
         IN  Gen2Extend(store, siblings, siblings, depth)

CallGen2GetWorkflowSiblings(task_id) ==
    LET r == gen2_get_workflow_siblings(tasks, task_id, 1)
    IN  /\ last_op' = [Op("gen2_get_workflow_siblings", task_id, Cascade(tasks))
                          EXCEPT !.calls = r.list, !.err = r.err]
        /\ UNCHANGED <<tasks, prev_tasks>>
        /\ UiUnchanged

\* each store is an input of one call
NextAccess ==
    /\ last_op.name = "load_data"
    /\ \/ \E parent_id \in {NoId} \cup AccessIds(MaxAccess) : CallGetSubtasks(parent_id)
       \/ \E task_id \in AccessIds(MaxAccess) : CallGetWorkflowSiblings(task_id)
       \/ \E task_id \in AccessIds(MaxAccess) : CallGen2GetWorkflowSiblings(task_id)

SpecAccess == InitAccess /\ [][NextAccess]_vars

(***************************************************************************)
(* SpecLayout: the application started on a data file and then zoomed and  *)
(* switched between views and sort modes.  The file holds a forest of at   *)
(* most MaxForest tasks (each task a root, a subtask or a workflow sibling *)
(* of an earlier task, any number of either per task, as earlier           *)
(* generations wrote them), or any store of at most MaxMalformed tasks.    *)
(* Only a root's status decides whether its tree is shown: a root is done  *)
(* or not, the others are not.                                             *)
(***************************************************************************)
\* priorities run against the creation order, as move_priority_up leaves them
NewNodes(store, id) ==
    LET priority == MaxForest + 1 - id
    IN  {Task(id, NoId, NoId, completed, FALSE, priority) : completed \in BOOLEAN}
        \cup {Task(id, j, NoId, FALSE, FALSE, priority) : j \in Ids(store)}
        \cup {Task(id, Get(store, j).parent_id, j, FALSE, FALSE, priority) :
                  j \in Ids(store)}

RECURSIVE Forests(_)
Forests(n) ==
    IF n = 0 THEN {<<>>}
    ELSE UNION {{Append(s, t) : t \in NewNodes(s, n)} : s \in Forests(n - 1)}

ForestStores == UNION {Forests(n) : n \in 0 .. MaxForest}

MalformedStores == UNION {StoresOf(n, {<<FALSE, FALSE>>}) : n \in 0 .. MaxMalformed}

\* an id no task of the store has
MissingId == MaxForest + 1

\* task 1 names MissingId as its parent, as its workflow sibling anchor or as
\* both; the store holds it alone, with a subtask of it, or after a root
Orphans ==
    {Task(1, ref[1], ref[2], st[1], st[2], 1) :
        ref \in {<<MissingId, NoId>>, <<NoId, MissingId>>, <<MissingId, MissingId>>},
        st \in Status}

DanglingStores ==
    UNION {{<<o>>,
            <<o, Task(2, 1, NoId, o.completed, o.stashed, 2)>>,
            <<Task(2, NoId, NoId, o.completed, o.stashed, 2), o>>} : o \in Orphans}

Half == Float(5, 0)
Two == Float(20, 0)

\* the tail of every handler: refresh_pipeline() on the new state
Refresh(store, view, sort, z) ==
    LET r == refresh_pipeline(store, view, sort, z, task_positions)
    IN  /\ task_positions' = r.task_positions
        /\ render_log' = r.render_log
        /\ pc' = IF r.hung THEN "hung" ELSE "idle"

InitLayout ==
    /\ tasks \in ForestStores \cup MalformedStores \cup DanglingStores
    /\ disk = File(json_dump(tasks)) /\ fs = "ok"
    /\ prev_tasks = <<>>
    /\ last_op = Op("load_data", NoId, Cascade(tasks))
    /\ next_id = 0
    /\ current_view = "todo" /\ sort_mode = "priority" /\ view_mode = "card"
    /\ card_zoom_level = One
    /\ NotDragging
    /\ LET r == refresh_pipeline(tasks, current_view, sort_mode, card_zoom_level, <<>>)
       IN  /\ task_positions = r.task_positions
           /\ render_log = r.render_log
           /\ pc = IF r.hung THEN "hung" ELSE "idle"

ViewOp(same) == [Op("refresh_pipeline", NoId, Cascade(tasks)) EXCEPT !.repeat = same]

zoom_in ==
    /\ pc = "idle" /\ view_mode = "card"
    /\ card_zoom_level' = IF FloatLess(card_zoom_level, Two)
                          THEN PlusTenth(card_zoom_level) ELSE card_zoom_level
    /\ Refresh(tasks, current_view, sort_mode, card_zoom_level')
    /\ last_op' = ViewOp(card_zoom_level' = card_zoom_level)
    /\ UNCHANGED <<disk, fs, tasks, prev_tasks, current_view, sort_mode, view_mode, dragging,
                   drag_task_id, next_id>>

zoom_out ==
    /\ pc = "idle" /\ view_mode = "card"
    /\ card_zoom_level' = IF FloatLess(Half, card_zoom_level)
                          THEN MinusTenth(card_zoom_level) ELSE card_zoom_level
    /\ Refresh(tasks, current_view, sort_mode, card_zoom_level')
    /\ last_op' = ViewOp(card_zoom_level' = card_zoom_level)
    /\ UNCHANGED <<disk, fs, tasks, prev_tasks, current_view, sort_mode, view_mode, dragging,
                   drag_task_id, next_id>>

switch_view(view) ==
    /\ pc = "idle"
    /\ current_view' = view
    /\ Refresh(tasks, view, sort_mode, card_zoom_level)
    /\ last_op' = ViewOp(view = current_view)
    /\ UNCHANGED <<disk, fs, tasks, prev_tasks, sort_mode, view_mode, card_zoom_level, dragging,
                   drag_task_id, next_id>>

switch_sort(mode) ==
    /\ pc = "idle"
    /\ sort_mode' = mode
    /\ Refresh(tasks, current_view, mode, card_zoom_level)
    /\ last_op' = ViewOp(mode = sort_mode)
    /\ UNCHANGED <<disk, fs, tasks, prev_tasks, current_view, view_mode, card_zoom_level, dragging,
                   drag_task_id, next_id>>

Views == {"todo", "done", "stash"}
SortModes == {"priority", "date"}

NextLayout ==
    \/ zoom_in
    \/ zoom_out
    \/ \E view \in Views : switch_view(view)
    \/ \E mode \in SortModes : switch_sort(mode)

SpecLayout == InitLayout /\ [][NextLayout]_vars

(***************************************************************************)
(* Spec: the application started without a data file and driven through    *)
(* its window.  A card button exists only for a card the last refresh      *)
(* drew; the dialogs hold the grab, so opening one and confirming it is    *)
(* one step; while the mouse button is held on the canvas only its release *)
(* can follow.                                                             *)
(***************************************************************************)
Titles == {"", " ", "t"}

\* title_entry.get() with the whitespace stripped
KeepWhitespace(title) == title

strip(title) == IF title = " " THEN "" ELSE title

ValidTitles == {title \in Titles : strip(title) # ""}

Visible == {c.id : c \in Range(task_positions)}
VisibleRoots == {id \in Visible : id \in Ids(tasks) /\ IsRoot(Get(tasks, id))}

Init ==
    /\ disk = NoFile /\ fs = "ok"
    /\ tasks = load_data(disk)
    /\ prev_tasks = <<>>
    /\ last_op = Op("load_data", NoId, Cascade(<<>>))
    /\ next_id = 0
    /\ UiIdle

\* the end of a handler that worked on the store: save_data, refresh_pipeline
\* (both skipped when an exception left the handler early)
Handled(name, task_id, c) ==
    /\ tasks' = c.tasks
    /\ last_op' = [Op(name, task_id, c) EXCEPT !.saved = ~c.err /\ fs = "ok"]
    /\ IF c.err THEN UNCHANGED <<disk, task_positions, render_log, pc>>
       ELSE /\ disk' = save_data(c.tasks, disk, fs)
            /\ Refresh(c.tasks, current_view, sort_mode, card_zoom_level)
    /\ UNCHANGED <<fs, prev_tasks, current_view, sort_mode, view_mode, card_zoom_level,
                   dragging, drag_task_id>>

\* a handler that returned early: nothing is saved nor drawn, and the history
\* keeps the last handler that ran to its end
Returned(name, task_id) == UNCHANGED vars

\* a dialog confirmed without a title: a warning box, and the dialog stays
Warned(name, task_id) ==
    /\ last_op' = [Op(name, task_id, Cascade(tasks)) EXCEPT !.warned = TRUE]
    /\ UNCHANGED <<tasks, prev_tasks, current_view, sort_mode, view_mode,
                   card_zoom_level, task_positions, render_log, pc, dragging,
                   drag_task_id, next_id, disk, fs>>

MaxOf(S) == CHOOSE m \in S : \A n \in S : n <= m
MinOf(S) == CHOOSE m \in S : \A n \in S : m <= n

\* the new priority taken from the number of tasks in the store
CreateCountingTasks(name, parent_id, wso, title) ==
    IF strip(title) = "" THEN Warned(name, NoId)
    ELSE LET task_id == next_id + 1
         IN  /\ next_id < MaxCreate
             /\ next_id' = task_id
             /\ Handled(name, task_id,
                        Cascade(Append(tasks,
                            Task(task_id, parent_id, wso, FALSE, FALSE, Len(tasks) + 1))))

\* the CREATE button of the dialog; the new task has no stashed key
create_task(name, parent_id, wso, title) ==
    IF strip(title) = "" THEN Warned(name, NoId)
    ELSE LET existing_priorities == {PriorityGet0(t) : t \in Range(tasks)}
             priority_val == IF existing_priorities # {}
                             THEN MaxOf(existing_priorities) + 1 ELSE 1
             task_id == next_id + 1
         IN  /\ next_id < MaxCreate
             /\ next_id' = task_id
             /\ Handled(name, task_id,
                        Cascade(Append(tasks,
                            Task(task_id, parent_id, wso, FALSE, FALSE, priority_val))))

show_task_dialog(title) ==
    /\ pc = "idle"
    /\ create_task("show_task_dialog", NoId, NoId, title)

\* a subtask that names itself as its parent
AddSubtaskOfItself(parent_id, title) ==
    /\ pc = "idle"
    /\ create_task("add_subtask", next_id + 1, NoId, title)

add_subtask(parent_id, title) ==
    /\ pc = "idle"
    /\ create_task("add_subtask", parent_id, NoId, title)

\* the sibling created at the root level whatever the level of its anchor
AddSiblingAtRoot(sibling_of_id, title) ==
    /\ pc = "idle"
    /\ IF sibling_of_id \in Ids(tasks)
       THEN create_task("add_workflow_sibling", NoId, sibling_of_id, title)
       ELSE Returned("add_workflow_sibling", sibling_of_id)

add_workflow_sibling(sibling_of_id, title) ==
    /\ pc = "idle"
    /\ IF sibling_of_id \in Ids(tasks)
       THEN create_task("add_workflow_sibling",
                        Get(tasks, sibling_of_id).parent_id, sibling_of_id, title)
       ELSE Returned("add_workflow_sibling", sibling_of_id)

edit_task(task_id, title) ==
    /\ pc = "idle"
    /\ IF task_id \notin Ids(tasks) THEN Returned("edit_task", task_id)
       ELSE IF strip(title) = "" THEN Warned("edit_task", task_id)
       ELSE /\ Handled("edit_task", task_id,
                       Cascade(Put(tasks,
                           [Get(tasks, task_id) EXCEPT !.title = strip(title)])))
            /\ UNCHANGED next_id

\* a delete that takes the task and leaves what is below it
DeleteWithoutCascade(task_id, yes) ==
    /\ pc = "idle"
    /\ IF yes
       THEN /\ Handled("delete_task", task_id,
                       [Cascade(Remove(tasks, task_id)) EXCEPT !.calls = <<task_id>>])
            /\ UNCHANGED next_id
       ELSE Returned("delete_task", task_id)

delete_task(task_id, yes) ==
    /\ pc = "idle"
    /\ IF yes
       THEN /\ Handled("delete_task", task_id,
                       _delete_recursive(Cascade(tasks), task_id, 1))
            /\ UNCHANGED next_id
       ELSE Returned("delete_task", task_id)

\* a done toggle that takes the subtasks along
ToggleDoneWithSubtasks(task_id, status) ==
    /\ pc = "idle"
    /\ LET done == status = "Done"
           family == {task_id} \cup Range(get_subtasks(tasks, task_id))
       IN  Handled("toggle_done_status", task_id,
                   Cascade([i \in DOMAIN tasks |->
                       IF tasks[i].id \in family
                       THEN [tasks[i] EXCEPT !.completed = done,
                                             !.stashed = IF done THEN FALSE ELSE @]
                       ELSE tasks[i]]))
    /\ UNCHANGED next_id

\* a task marked done stays stashed
ToggleDoneKeepStashed(task_id, status) ==
    /\ pc = "idle"
    /\ IF task_id \in Ids(tasks)
       THEN /\ Handled("toggle_done_status", task_id,
                       Cascade(Put(tasks, [Get(tasks, task_id)
                                              EXCEPT !.completed = status = "Done"])))
            /\ UNCHANGED next_id
       ELSE Returned("toggle_done_status", task_id)

toggle_done_status(task_id, status) ==
    /\ pc = "idle"
    /\ IF task_id \in Ids(tasks)
       THEN LET done == status = "Done"
                t == Get(tasks, task_id)
            IN  /\ Handled("toggle_done_status", task_id,
                       Cascade(Put(tasks,
                           [t EXCEPT !.completed = done,
                                     !.stashed = IF done THEN FALSE ELSE @])))
                /\ UNCHANGED next_id
       ELSE Returned("toggle_done_status", task_id)

\* the status the done button of a card passes: fixed when the card was drawn
ButtonStatus(task_id) == IF Get(tasks, task_id).completed THEN "Todo" ELSE "Done"

toggle_stash_status(task_id) ==
    /\ pc = "idle"
    /\ IF task_id \in Ids(tasks)
       THEN /\ Handled("toggle_stash_status", task_id,
                       _set_stash_recursive(Cascade(tasks), task_id,
                                            ~Get(tasks, task_id).stashed, 1))
            /\ UNCHANGED next_id
       ELSE Returned("toggle_stash_status", task_id)

\* the moved task takes target_priority and no task gives it up
AssignWithoutSwap(name, task_id, current_priority, target_priority) ==
    /\ Handled(name, task_id,
            Cascade(Put(tasks, [Get(tasks, task_id) EXCEPT !.priority = target_priority])))
    /\ UNCHANGED next_id

\* the swap both priority moves end with: the first task of the store that
\* holds target_priority takes current_priority
SwapWithFirst(name, task_id, current_priority, target_priority) ==
    LET holders == SelectSeq(tasks, LAMBDA t : t.priority = target_priority)
    IN  IF holders = <<>> THEN Returned(name, task_id)
        ELSE LET swapped == Put(tasks, [Head(holders) EXCEPT !.priority = current_priority])
             IN  /\ Handled(name, task_id,
                        Cascade(Put(swapped,
                            [Get(swapped, task_id) EXCEPT !.priority = target_priority])))
                 /\ UNCHANGED next_id

\* the nearest lower priority looked for among the root tasks only
MoveUpAmongRoots(task_id) ==
    /\ pc = "idle"
    /\ IF task_id \notin Ids(tasks) THEN Returned("move_priority_up", task_id)
       ELSE LET current_priority == PriorityGet999(Get(tasks, task_id))
                lower_priorities ==
                    {PriorityGet999(t) : t \in {u \in Range(tasks) :
                        /\ PriorityGet999(u) < current_priority /\ u.id # task_id
                        /\ IsRoot(u)}}
            IN  IF lower_priorities = {} THEN Returned("move_priority_up", task_id)
                ELSE SwapWithFirst("move_priority_up", task_id, current_priority,
                                   MaxOf(lower_priorities))

move_priority_up(task_id) ==
    /\ pc = "idle"
    /\ IF task_id \notin Ids(tasks) THEN Returned("move_priority_up", task_id)
       ELSE LET current_priority == PriorityGet999(Get(tasks, task_id))
                lower_priorities ==
                    {PriorityGet999(t) : t \in {u \in Range(tasks) :
                        PriorityGet999(u) < current_priority /\ u.id # task_id}}
            IN  IF lower_priorities = {} THEN Returned("move_priority_up", task_id)
                ELSE SwapWithFirst("move_priority_up", task_id, current_priority,
                                   MaxOf(lower_priorities))

\* the farthest higher priority taken instead of the nearest
MoveDownToFarthest(task_id) ==
    /\ pc = "idle"
    /\ IF task_id \notin Ids(tasks) THEN Returned("move_priority_down", task_id)
       ELSE LET current_priority == PriorityGet999(Get(tasks, task_id))
                higher_priorities ==
                    {PriorityGet999(t) : t \in {u \in Range(tasks) :
                        PriorityGet999(u) > current_priority /\ u.id # task_id}}
            IN  IF higher_priorities = {} THEN Returned("move_priority_down", task_id)
                ELSE SwapWithFirst("move_priority_down", task_id, current_priority,
                                   MaxOf(higher_priorities))

move_priority_down(task_id) ==
    /\ pc = "idle"
    /\ IF task_id \notin Ids(tasks) THEN Returned("move_priority_down", task_id)
       ELSE LET current_priority == PriorityGet999(Get(tasks, task_id))
                higher_priorities ==
                    {PriorityGet999(t) : t \in {u \in Range(tasks) :
                        PriorityGet999(u) > current_priority /\ u.id # task_id}}
            IN  IF higher_priorities = {} THEN Returned("move_priority_down", task_id)
                ELSE SwapWithFirst("move_priority_down", task_id, current_priority,
                                   MinOf(higher_priorities))

\* the card under a canvas point that belongs to a root task: the first one
\* in the order of task_positions
Contains(card, p) ==
    /\ card.x <= p[1] /\ p[1] <= card.x + card.w
    /\ card.y <= p[2] /\ p[2] <= card.y + card.h

\* the first card under the point, whatever its task
AnyCardAt(p) ==
    LET hits == SelectSeq(task_positions, LAMBDA card :
                    Contains(card, p) /\ card.id \in Ids(tasks))
    IN  IF hits = <<>> THEN NoId ELSE Head(hits).id

RootCardAt(p) ==
    LET hits == SelectSeq(task_positions, LAMBDA card :
                    /\ Contains(card, p)
                    /\ card.id \in Ids(tasks)
                    /\ IsRoot(Get(tasks, card.id)))
    IN  IF hits = <<>> THEN NoId ELSE Head(hits).id

\* canvas points off every button: the corner of each card, and a point off
\* every card
Points == {<<c.x, c.y>> : c \in Range(task_positions)} \cup {<<0, 0>>}

_on_canvas_click(p) ==
    /\ pc = "idle"
    /\ LET task_id == RootCardAt(p)
       IN  /\ dragging' = IF task_id # NoId THEN TRUE ELSE dragging
           /\ drag_task_id' = IF task_id # NoId THEN task_id ELSE drag_task_id
    /\ pc' = "pressed"
    /\ UNCHANGED <<disk, fs, tasks, prev_tasks, last_op, current_view, sort_mode, view_mode,
                   card_zoom_level, task_positions, render_log, next_id>>

_on_canvas_release(p) ==
    /\ pc = "pressed"
    /\ LET dropped_on_task_id == RootCardAt(p)
           drag_priority == PriorityOr999(Get(tasks, drag_task_id))
           drop_priority == PriorityOr999(Get(tasks, dropped_on_task_id))
       IN  IF /\ dragging /\ Truthy(drag_task_id)
              /\ Truthy(dropped_on_task_id)
              /\ dropped_on_task_id # drag_task_id
           THEN /\ tasks' = Put(Put(tasks,
                                [Get(tasks, drag_task_id)
                                     EXCEPT !.priority = drop_priority]),
                                [Get(tasks, dropped_on_task_id)
                                     EXCEPT !.priority = drag_priority])
                /\ last_op' = [Op("_on_canvas_release", dropped_on_task_id,
                                    Cascade(tasks')) EXCEPT !.saved = fs = "ok"]
                /\ disk' = save_data(tasks', disk, fs)
                /\ LET r == refresh_pipeline(tasks', current_view, sort_mode,
                                             card_zoom_level, task_positions)
                   IN  /\ task_positions' = r.task_positions
                       /\ render_log' = r.render_log
           ELSE UNCHANGED <<tasks, last_op, disk, task_positions, render_log>>
    /\ pc' = "idle"
    /\ dragging' = FALSE
    /\ drag_task_id' = NoId
    /\ UNCHANGED <<fs, prev_tasks, current_view, sort_mode, view_mode, card_zoom_level,
                   next_id>>

Next ==
    \/ \E title \in ValidTitles : show_task_dialog(title)
    \/ \E task_id \in Visible, title \in ValidTitles :
           /\ get_subtasks(tasks, task_id) = <<>>
           /\ add_subtask(task_id, title)
    \/ \E task_id \in Visible, title \in ValidTitles :
           /\ get_workflow_siblings(tasks, task_id) = <<>>
           /\ add_workflow_sibling(task_id, title)
    \/ \E task_id \in Visible, title \in ValidTitles : edit_task(task_id, title)
    \/ \E task_id \in Visible, yes \in BOOLEAN : delete_task(task_id, yes)
    \/ \E task_id \in Visible : toggle_done_status(task_id, ButtonStatus(task_id))
    \/ \E task_id \in Visible : toggle_stash_status(task_id)
    \/ \E task_id \in VisibleRoots : move_priority_up(task_id)
    \/ \E task_id \in VisibleRoots : move_priority_down(task_id)
    \/ \E view \in Views : switch_view(view)
    \/ \E p \in Points : _on_canvas_click(p)
    \/ \E p \in Points : _on_canvas_release(p)

Spec == Init /\ [][Next]_vars

(***************************************************************************)
(* SpecReorder: the application started on a data file of at most          *)
(* MaxReorder open tasks, a forest whose priorities are any of             *)
(* LoadedPriorities (every generation writes the priority key; generations *)
(* 1 and 2 store the number the user typed, 0 and duplicates included),    *)
(* followed by priority moves and drags of the root cards.                 *)
(***************************************************************************)
LoadedPriorities == {0, 2, 5}

ReorderNodes(store, id) ==
    UNION {{Task(id, NoId, NoId, FALSE, FALSE, priority)}
           \cup {Task(id, j, NoId, FALSE, FALSE, priority) : j \in Ids(store)}
           \cup {Task(id, Get(store, j).parent_id, j, FALSE, FALSE, priority) :
                     j \in Ids(store)} : priority \in LoadedPriorities}

RECURSIVE ReorderForests(_)
ReorderForests(n) ==
    IF n = 0 THEN {<<>>}
    ELSE UNION {{Append(s, t) : t \in ReorderNodes(s, n)} : s \in ReorderForests(n - 1)}

ReorderStores == UNION {ReorderForests(n) : n \in 0 .. MaxReorder}

InitReorder ==
    /\ tasks \in ReorderStores
    /\ disk = File(json_dump(tasks)) /\ fs = "ok"
    /\ prev_tasks = <<>>
    /\ last_op = Op("load_data", NoId, Cascade(tasks))
    /\ next_id = 0
    /\ current_view = "todo" /\ sort_mode = "priority" /\ view_mode = "card"
    /\ card_zoom_level = One
    /\ NotDragging
    /\ LET r == refresh_pipeline(tasks, current_view, sort_mode, card_zoom_level, <<>>)
       IN  /\ task_positions = r.task_positions
           /\ render_log = r.render_log
           /\ pc = IF r.hung THEN "hung" ELSE "idle"

NextReorder ==
    \/ \E task_id \in VisibleRoots : move_priority_up(task_id)
    \/ \E task_id \in VisibleRoots : move_priority_down(task_id)
    \/ \E p \in Points : _on_canvas_click(p)
    \/ \E p \in Points : _on_canvas_release(p)

SpecReorder == InitReorder /\ [][NextReorder]_vars

(***************************************************************************)
(* SpecRoundTrip: the application started on the data files of             *)
(* SpecReorder, followed by one priority move of a root card and then the  *)
(* opposite move of the same card.  prev_tasks keeps the store as it was   *)
(* loaded; the second move is offered while the store differs from it.     *)
(***************************************************************************)
InitRoundTrip ==
    /\ tasks \in ReorderStores
    /\ disk = File(json_dump(tasks)) /\ fs = "ok"
    /\ prev_tasks = tasks
    /\ last_op = Op("load_data", NoId, Cascade(tasks))
    /\ next_id = 0
    /\ current_view = "todo" /\ sort_mode = "priority" /\ view_mode = "card"
    /\ card_zoom_level = One
    /\ NotDragging
    /\ LET r == refresh_pipeline(tasks, current_view, sort_mode, card_zoom_level, <<>>)
       IN  /\ task_positions = r.task_positions
           /\ render_log = r.render_log
           /\ pc = IF r.hung THEN "hung" ELSE "idle"

NextRoundTrip ==
    \/ /\ last_op.name = "load_data"
       /\ \E task_id \in VisibleRoots : move_priority_up(task_id)
    \/ /\ last_op.name = "load_data"
       /\ \E task_id \in VisibleRoots : move_priority_down(task_id)
    \/ /\ last_op.name = "move_priority_up" /\ tasks # prev_tasks
       /\ move_priority_down(last_op.task)
    \/ /\ last_op.name = "move_priority_down" /\ tasks # prev_tasks
       /\ move_priority_up(last_op.task)

SpecRoundTrip == InitRoundTrip /\ [][NextRoundTrip]_vars

(***************************************************************************)
(* SpecPersist: the dialogs, the delete button and the status buttons of   *)
(* the todo view from the empty store, with at most MaxSaved tasks         *)
(* created, dialogs confirmed with any title, a file system whose writes   *)
(* succeed, fail at open or fail after open, and restarts of the           *)
(* application, which read the data file.                                  *)
(***************************************************************************)
Outcomes == {"ok", "open_fails", "write_fails"}

\* the file system changes its behaviour
Environment(outcome) ==
    /\ pc = "idle"
    /\ outcome # fs
    /\ fs' = outcome
    /\ UNCHANGED <<tasks, prev_tasks, last_op, current_view, sort_mode, view_mode,
                   card_zoom_level, task_positions, render_log, pc, dragging,
                   drag_task_id, next_id, disk>>

\* the application is closed and started again
__init__ ==
    /\ pc = "idle"
    /\ tasks' = load_data(disk)
    /\ last_op' = Op("load_data", NoId, Cascade(tasks'))
    /\ current_view' = "todo" /\ sort_mode' = "priority" /\ view_mode' = "card"
    /\ card_zoom_level' = One
    /\ dragging' = FALSE /\ drag_task_id' = NoId
    /\ Refresh(tasks', "todo", "priority", One)
    /\ UNCHANGED <<prev_tasks, next_id, disk, fs>>

NextPersist ==
    \/ \E title \in Titles : next_id < MaxSaved /\ show_task_dialog(title)
    \/ \E task_id \in Visible, title \in Titles :
           /\ next_id < MaxSaved
           /\ get_subtasks(tasks, task_id) = <<>>
           /\ add_subtask(task_id, title)
    \/ \E task_id \in Visible, title \in Titles :
           /\ next_id < MaxSaved
           /\ get_workflow_siblings(tasks, task_id) = <<>>
           /\ add_workflow_sibling(task_id, title)
    \/ \E task_id \in Visible, title \in Titles : edit_task(task_id, title)
    \/ \E task_id \in Visible, yes \in BOOLEAN : delete_task(task_id, yes)
    \/ \E task_id \in Visible : toggle_done_status(task_id, ButtonStatus(task_id))
    \/ \E task_id \in Visible : toggle_stash_status(task_id)
    \/ \E outcome \in Outcomes : Environment(outcome)
    \/ __init__

SpecPersist == Init /\ [][NextPersist]_vars

(***************************************************************************)
(* The tasks reachable from a task through get_subtasks and                *)
(* get_workflow_siblings, as a least fixed point.                          *)
(***************************************************************************)
Children(store, p) ==
    Range(get_subtasks(store, p)) \cup Range(get_workflow_siblings(store, p))

RECURSIVE Closure(_, _)
Closure(store, S) ==
    LET next == S \cup UNION {Children(store, p) : p \in S}
    IN  IF next = S THEN S ELSE Closure(store, next)

Reach(store, r) == Closure(store, {r})

Acyclic(store) ==
    \A t \in Ids(store) : t \notin Closure(store, Children(store, t))

Without(store, S) == SelectSeq(store, LAMBDA t : t.id \notin S)

Count(s, x) == Cardinality({i \in DOMAIN s : s[i] = x})

(***************************************************************************)
(* C1.  On an acyclic store _delete_recursive(r) removes exactly the tasks *)
(* reachable from r through get_subtasks and get_workflow_siblings (r      *)
(* included): the store afterwards is the store before without them, and   *)
(* the task count drops by their number.                                   *)
(***************************************************************************)
C1_DeleteRemovesReachable ==
    (last_op.name = "_delete_recursive" /\ Acyclic(prev_tasks)) =>
        LET R == Reach(prev_tasks, last_op.task)
        IN  /\ ~last_op.err
            /\ tasks = Without(prev_tasks, R)
            /\ Len(tasks) = Len(prev_tasks) - Cardinality(R)

\* task 1, its subtask 2 and the workflow sibling 0 of task 2;
\* deleting 2 removed 2 and 0 and left 1
C1_Witness ==
    /\ last_op.name = "_delete_recursive" /\ last_op.task = 2
    /\ Len(prev_tasks) = 3
    /\ Get(prev_tasks, 1).parent_id = NoId
    /\ Get(prev_tasks, 1).workflow_sibling_of = NoId
    /\ Get(prev_tasks, 2).parent_id = 1
    /\ Get(prev_tasks, 2).workflow_sibling_of = NoId
    /\ Get(prev_tasks, 0).workflow_sibling_of = 2
    /\ Ids(tasks) = {1}

(***************************************************************************)
(* C2.  On an acyclic store toggle_stash_status(r) sets stashed to         *)
(* v = not r.stashed on r and on every task reachable from r, visits each  *)
(* of them exactly once, and when v is true leaves all of them with        *)
(* completed = false.                                                      *)
(***************************************************************************)
C2_StashCascadeVisitsOnce ==
    (last_op.name = "toggle_stash_status" /\ Acyclic(prev_tasks)) =>
        LET r == last_op.task
            v == ~Get(prev_tasks, r).stashed
        IN  /\ ~last_op.err
            /\ \A t \in Reach(prev_tasks, r) :
                   /\ Get(tasks, t).stashed = v
                   /\ v => ~Get(tasks, t).completed
                   /\ Count(last_op.calls, t) = 1

(***************************************************************************)
(* C5.  Started on a store whose relations contain a cycle, the cascades   *)
(* _delete_recursive and _set_stash_recursive end without an error and     *)
(* visit no task twice.                                                    *)
(***************************************************************************)
C5_CascadeSurvivesCycle ==
    (last_op.name \in {"_delete_recursive", "toggle_stash_status"}
        /\ ~Acyclic(prev_tasks)) =>
        /\ ~last_op.err
        /\ \A t \in Ids(prev_tasks) : Count(last_op.calls, t) <= 1

\* the recursion bound of the model cuts no cascade of an acyclic store short
RecursionErrorOnlyOnCycle == last_op.err => ~Acyclic(prev_tasks)

(***************************************************************************)
(* Status claims, over Spec.                                               *)
(***************************************************************************)
\* C3: toggle_done_status(t, status) sets t.completed to (status is Done),
\* clears t.stashed when t becomes completed, and leaves every other task,
\* the subtasks and workflow siblings of t included, as it was.
C3_ToggleDoneChangesOnlyTask ==
    [][\A task_id \in Ids(tasks) : \A status \in {"Todo", "Done"} :
          toggle_done_status(task_id, status) =>
              /\ IdsOf(tasks') = IdsOf(tasks)
              /\ Get(tasks', task_id).completed = (status = "Done")
              /\ Get(tasks', task_id).stashed =
                     (IF status = "Done" THEN FALSE ELSE Get(tasks, task_id).stashed)
              /\ \A other \in Ids(tasks) \ {task_id} :
                     Get(tasks', other) = Get(tasks, other)]_vars

C3_Witness ==
    /\ last_op.name = "toggle_done_status"
    /\ last_op.task \in Ids(tasks)
    /\ Get(tasks, last_op.task).completed
    /\ \E u \in Range(get_subtasks(tasks, last_op.task)) :
           ~Get(tasks, u).completed /\ Get(tasks, u).stashed
    /\ \E w \in Range(get_workflow_siblings(tasks, last_op.task)) :
           ~Get(tasks, w).completed

\* C4: in every state reached from the empty store through the window no
\* task is completed and stashed at the same time.
C4_NeverDoneAndStashed ==
    \A t \in Range(tasks) : ~(t.completed /\ t.stashed)

C4_Witness ==
    /\ last_op.name = "toggle_stash_status"
    /\ Len(last_op.calls) >= 2
    /\ \A id \in Range(last_op.calls) : Get(tasks, id).stashed
    /\ \E t \in Range(tasks) : t.completed

(***************************************************************************)
(* Layout claims, over SpecLayout.                                         *)
(***************************************************************************)
Intersect(a, b) ==
    /\ a.x < b.x + b.w /\ b.x < a.x + a.w
    /\ a.y < b.y + b.h /\ b.y < a.y + a.h

PlacedOnce(cards) ==
    \A i, j \in DOMAIN cards : cards[i].id = cards[j].id => i = j

MaxBottom(cards) ==
    CHOOSE b \in {c.y + c.h : c \in Range(cards)} :
        \A c \in Range(cards) : c.y + c.h <= b

\* the layout loop runs forever only on a store with a cycle
HungOnlyOnCycle == pc = "hung" => ~Acyclic(tasks)

\* C6: one card-mode layout pass terminates and places each task at most
\* once, whatever the store holds.
C6_LayoutPlacesOnce ==
    /\ pc # "hung"
    /\ PlacedOnce(AllCards(render_log))

\* C7: on an acyclic store the rectangles one _render_task_tree call stores
\* are pairwise non-intersecting, at every zoom level.
C7_NoOverlapInTree ==
    Acyclic(tasks) =>
        \A k \in DOMAIN render_log :
            LET cards == render_log[k].cards
            IN  PlacedOnce(cards) =>
                    \A i, j \in DOMAIN cards :
                        i < j => ~Intersect(cards[i], cards[j])

\* C8: _render_task_tree(root, x, y) returns the largest bottom edge of the
\* cards it placed minus y, which is card_height for a root alone.
C8_ReturnIsExtent ==
    \A k \in DOMAIN render_log :
        LET r == render_log[k]
        IN  ~r.hung =>
                /\ r.ret = MaxBottom(r.cards) - r.y
                /\ Len(r.cards) = 1 => r.ret = card_height(card_zoom_level)

\* C9: in one refresh over an acyclic store each root tree is anchored
\* strictly below every card of the root trees before it, and no card of one
\* root tree intersects a card of another.
C9_RootTreesApart ==
    Acyclic(tasks) =>
        \A i, j \in DOMAIN render_log :
            i < j =>
                \A c \in Range(render_log[i].cards) :
                    /\ render_log[j].y > c.y + c.h
                    /\ \A d \in Range(render_log[j].cards) : ~Intersect(c, d)

C9_Witness ==
    /\ Acyclic(tasks)
    /\ Len(render_log) >= 2
    /\ \E c \in Range(render_log[1].cards) : c.y > render_log[1].y
    /\ Len(render_log[2].cards) >= 2

Orphan(store, t) ==
    /\ t.parent_id # NoId \/ t.workflow_sibling_of # NoId
    /\ t.parent_id = NoId \/ t.parent_id \notin Ids(store)
    /\ t.workflow_sibling_of = NoId \/ t.workflow_sibling_of \notin Ids(store)

\* C20: a task whose parent_id or workflow_sibling_of names an id that is
\* not in the store is among the root tasks of the view that matches its
\* status and has a position in card mode.
C20_DanglingDrawnAsRoot ==
    (pc = "idle" /\ view_mode = "card") =>
        \A t \in Range(tasks) :
            (Orphan(tasks, t) /\ InView(t, current_view)) =>
                /\ t.id \in Range(root_tasks(tasks, current_view, sort_mode))
                /\ \E c \in Range(task_positions) : c.id = t.id

(***************************************************************************)
(* Accessor claims, over SpecAccess.                                       *)
(***************************************************************************)
NoDuplicates(s) == \A i, j \in DOMAIN s : s[i] = s[j] => i = j
Place(store, id) == CHOOSE i \in DOMAIN store : store[i].id = id

\* C11: get_subtasks(p) returns exactly the tasks with parent_id = p and no
\* workflow_sibling_of, each once, in non-decreasing order of priority where
\* only an absent priority counts as 999, equal priorities in store order.
C11_SubtasksByPriority ==
    last_op.name = "get_subtasks" =>
        LET r == last_op.calls
            key(id) == PriorityGet999(Get(tasks, id))
        IN  /\ Range(r) = {t.id : t \in {u \in Range(tasks) :
                              u.parent_id = last_op.task
                              /\ u.workflow_sibling_of = NoId}}
            /\ NoDuplicates(r)
            /\ \A i, j \in DOMAIN r :
                   i < j => \/ key(r[i]) < key(r[j])
                            \/ /\ key(r[i]) = key(r[j])
                               /\ Place(tasks, r[i]) < Place(tasks, r[j])

\* C12: get_workflow_siblings(t) returns exactly the tasks whose
\* workflow_sibling_of is t, never a sibling of a sibling, each once, in
\* ascending order of created.
C12_SiblingsByCreated ==
    last_op.name = "get_workflow_siblings" =>
        LET r == last_op.calls
        IN  /\ Range(r) = {t.id : t \in {u \in Range(tasks) :
                              u.workflow_sibling_of = last_op.task}}
            /\ NoDuplicates(r)
            /\ \A i, j \in DOMAIN r :
                   i < j => Get(tasks, r[i]).created <= Get(tasks, r[j]).created

\* task 2 is a sibling of task 1 and task 3 a sibling of task 2, or two
\* siblings of task 1 come back against their order in the store
C12_Witness ==
    /\ last_op.name = "get_workflow_siblings" /\ last_op.task = 1
    /\ Len(tasks) = 3
    /\ \/ /\ last_op.calls = <<2>>
          /\ tasks[3].workflow_sibling_of = 2
       \/ /\ last_op.calls = <<3, 2>>
          /\ tasks[3].created < tasks[2].created

(***************************************************************************)
(* Claims on the states the UI reaches from the empty store, over Spec.    *)
(***************************************************************************)
\* C13: in every state reached from the empty store through the UI, every
\* task returned by get_workflow_siblings(a) has the parent_id of a.
C13_SiblingsShareParent ==
    \A a \in Ids(tasks) :
        \A s \in Range(get_workflow_siblings(tasks, a)) :
            Get(tasks, s).parent_id = Get(tasks, a).parent_id

\* a workflow sibling of a subtask
C13_Witness ==
    \E a \in Ids(tasks) :
        /\ Get(tasks, a).parent_id # NoId
        /\ get_workflow_siblings(tasks, a) # <<>>

\* C16: a created task receives the largest priority of the store plus 1
\* (1 in an empty store), and in every state reached from the empty store
\* no two tasks have the same priority.
C16_PrioritiesUnique ==
    /\ \A i, j \in DOMAIN tasks : tasks[i].priority = tasks[j].priority => i = j
    /\ last_op.name \in {"show_task_dialog", "add_subtask", "add_workflow_sibling"} =>
           LET n == Len(tasks)
               others == {tasks[i].priority : i \in 1 .. n - 1}
           IN  /\ tasks[n].id = last_op.task
               /\ tasks[n].priority = IF others = {} THEN 1 ELSE MaxOf(others) + 1

\* a task created after the task of priority 1 was deleted: its priority is
\* above the number of tasks
C16_Witness ==
    /\ last_op.name \in {"show_task_dialog", "add_subtask", "add_workflow_sibling"}
    /\ Len(tasks) = 2
    /\ tasks[2].priority = 3

(***************************************************************************)
(* Reordering claims, over SpecReorder.                                    *)
(***************************************************************************)
\* tasks[t] and tasks[u] exchanged their priorities and nothing else changed
Exchanged(t, u) ==
    tasks' = Put(Put(tasks, [Get(tasks, t) EXCEPT !.priority = Get(tasks, u).priority]),
                 [Get(tasks, u) EXCEPT !.priority = Get(tasks, t).priority])

\* the other tasks whose priority is strictly on the given side of t's
Below(t) == {u \in Ids(tasks) \ {t} : Get(tasks, u).priority < Get(tasks, t).priority}
Above(t) == {u \in Ids(tasks) \ {t} : Get(tasks, u).priority > Get(tasks, t).priority}

\* C14: move_priority_up(t) exchanges the priority of t with the largest
\* priority strictly below it among all other tasks, move_priority_down(t)
\* with the smallest strictly above it; without such a task the store is
\* left unchanged.
C14_MoveSwapsNearest ==
    [][\A t \in Ids(tasks) :
          /\ move_priority_up(t) =>
                IF Below(t) = {} THEN tasks' = tasks
                ELSE \E u \in Below(t) :
                        /\ \A v \in Below(t) :
                               Get(tasks, v).priority <= Get(tasks, u).priority
                        /\ Exchanged(t, u)
          /\ move_priority_down(t) =>
                IF Above(t) = {} THEN tasks' = tasks
                ELSE \E u \in Above(t) :
                        /\ \A v \in Above(t) :
                               Get(tasks, u).priority <= Get(tasks, v).priority
                        /\ Exchanged(t, u)]_vars

\* roots X and Y after move_priority_up(X): X = 2 and Y = 5
C14_Witness ==
    /\ last_op.name = "move_priority_up"
    /\ Len(tasks) = 2
    /\ \E X, Y \in Ids(tasks) :
           /\ last_op.task = X
           /\ IsRoot(Get(tasks, X)) /\ IsRoot(Get(tasks, Y))
           /\ Get(tasks, X).priority = 2 /\ Get(tasks, Y).priority = 5

\* the tasks whose card holds the canvas point p
CardsAt(p) == {c.id : c \in {d \in Range(task_positions) : Contains(d, p)}}
RootsAt(p) == {id \in CardsAt(p) \cap Ids(tasks) : IsRoot(Get(tasks, id))}

\* C15: a press on the card of a root task D followed by a release over the
\* card of another root task T exchanges the priorities of D and T; a press
\* or a release on a task with a parent_id or a workflow_sibling_of, or both
\* on the same task, changes no priority.
C15_DragSwapsRoots ==
    [][\A p \in Points :
          /\ _on_canvas_click(p) =>
                /\ tasks' = tasks
                /\ IF RootsAt(p) = {} THEN dragging' = FALSE
                   ELSE dragging' /\ drag_task_id' \in RootsAt(p)
          /\ _on_canvas_release(p) =>
                IF dragging /\ RootsAt(p) \ {drag_task_id} # {}
                THEN \E T \in RootsAt(p) \ {drag_task_id} : Exchanged(drag_task_id, T)
                ELSE tasks' = tasks]_vars

(***************************************************************************)
(* Persistence and dialog claims: C17 over Spec, where every write         *)
(* succeeds, C18 and C19 over SpecPersist.                                 *)
(***************************************************************************)
MutatingOps ==
    {"show_task_dialog", "add_subtask", "add_workflow_sibling", "edit_task",
     "delete_task", "toggle_done_status", "toggle_stash_status",
     "move_priority_up", "move_priority_down", "_on_canvas_release"}

\* C17: after every completed mutating operation whose write succeeded the
\* data file holds the in-memory mapping, and loading it gives the identical
\* tasks: same ids, fields and relations, in the same order.
C17_SavedEqualsMemory ==
    (last_op.name \in MutatingOps /\ last_op.saved) =>
        /\ disk = File(json_dump(tasks))
        /\ load_data(disk) = tasks

\* a stashed subtask has just been written to the data file
C17_Witness ==
    /\ last_op.name = "toggle_stash_status" /\ last_op.saved
    /\ \E t \in Range(tasks) : t.stashed /\ t.parent_id # NoId

\* C18: when save_data fails the mutation stays in memory, the data file
\* stays as it was and the operation completes; when load_data fails the
\* store is the empty mapping.
C18_FailureUndoesNothing ==
    [][/\ (/\ last_op' # last_op
           /\ last_op'.name \in MutatingOps
           /\ ~last_op'.warned
           /\ fs # "ok") =>
              /\ disk' = disk
              /\ pc' = "idle"
              /\ ~last_op'.err
       /\ \A t \in Ids(tasks) :
              (fs # "ok" /\ toggle_done_status(t, ButtonStatus(t))) =>
                  Get(tasks', t).completed = ~Get(tasks, t).completed
       /\ \A title \in ValidTitles :
              (fs # "ok" /\ show_task_dialog(title)) => Len(tasks') = Len(tasks) + 1
       /\ (__init__ /\ disk.state = "partial") => tasks' = <<>>]_vars

BlankTitles == {"", " "}

\* C19: the create dialog or the edit dialog confirmed with a title that is
\* empty once stripped leaves the store and the data file as they were.
C19_BlankTitleChangesNothing ==
    [][\A title \in BlankTitles :
          \A id \in Ids(tasks) \cup {NoId} :
              (\/ show_task_dialog(title)
               \/ add_subtask(id, title)
               \/ add_workflow_sibling(id, title)
               \/ edit_task(id, title)) => (tasks' = tasks /\ disk' = disk)]_vars

\* the edit dialog of a task just refused a title
C19_Witness ==
    /\ last_op.warned /\ last_op.name = "edit_task"
    /\ last_op.task \in Ids(tasks)
    /\ disk = File(json_dump(tasks))

(***************************************************************************)
(* Structure claims on the states the UI reaches from the empty store,     *)
(* over Spec.                                                              *)
(***************************************************************************)
\* the tasks a task names: its parent and its workflow sibling anchor
Named(t) == {t.parent_id, t.workflow_sibling_of} \ {NoId}

\* C21: every parent_id that is not None and every workflow_sibling_of of a
\* task in the store is the id of a task in the store.
C21_ReferencesExist ==
    \A t \in Range(tasks) : Named(t) \subseteq Ids(tasks)

\* a delete took a task and a task below it, and left a task
C21_Witness ==
    /\ last_op.name = "delete_task"
    /\ Len(last_op.calls) >= 2
    /\ tasks # <<>>

\* the ids reached from the ids S by following parent_id and
\* workflow_sibling_of
RECURSIVE Up(_, _)
Up(store, S) ==
    LET next == S \cup UNION {Named(Get(store, id)) : id \in S \cap Ids(store)}
    IN  IF next = S THEN S ELSE Up(store, next)

\* C22: no task reaches itself by following parent_id and
\* workflow_sibling_of references.
C22_NoReferenceCycle ==
    \A t \in Range(tasks) : t.id \notin Up(tasks, Named(t))

\* a task two references away from a root
C22_Witness ==
    \E t \in Range(tasks) :
        \E a \in Named(t) \cap Ids(tasks) : Named(Get(tasks, a)) # {}

(***************************************************************************)
(* The root list of a view.                                                *)
(***************************************************************************)
\* the status a view shows
Matches(t, view) ==
    \/ view = "todo" /\ ~t.completed /\ ~t.stashed
    \/ view = "done" /\ t.completed
    \/ view = "stash" /\ t.stashed

\* C23: the root list of the view holds each task at most once, holds
\* exactly the tasks without parent_id and workflow_sibling_of whose status
\* matches the view, and is ordered by (priority, created) in priority sort
\* mode and by created in date sort mode.
C23_RootListOfView ==
    LET r == root_tasks(tasks, current_view, sort_mode)
        priority(id) == PriorityGet999(Get(tasks, id))
        created(id) == Get(tasks, id).created
    IN  /\ NoDuplicates(r)
        /\ Range(r) = {t.id : t \in {u \in Range(tasks) :
                          /\ u.parent_id = NoId /\ u.workflow_sibling_of = NoId
                          /\ Matches(u, current_view)}}
        /\ \A i, j \in DOMAIN r :
               i < j => IF sort_mode = "priority"
                        THEN \/ priority(r[i]) < priority(r[j])
                             \/ /\ priority(r[i]) = priority(r[j])
                                /\ created(r[i]) <= created(r[j])
                        ELSE created(r[i]) <= created(r[j])

(***************************************************************************)
(* Connectors of a card-mode pass, over SpecLayout.                        *)
(***************************************************************************)
\* the point (x, y) is on the card or at most margin away from it
Touches(card, x, y, margin) ==
    /\ card.x - margin <= x /\ x <= card.x + card.w + margin
    /\ card.y - margin <= y /\ y <= card.y + card.h + margin

\* a connector that starts on card a and whose tip is next to card b
Connects(l, a, b) ==
    /\ Touches(a, l.x1, l.y1, 0)
    /\ Touches(b, l.x2, l.y2, Scaled(20, card_zoom_level))

\* C24: after a card-mode pass there is a connector from every placed task
\* to each of its direct subtasks and to each of its direct workflow
\* siblings that are placed.
C24_ConnectorPerEdge ==
    (pc = "idle" /\ view_mode = "card") =>
        \A a, b \in Range(task_positions) :
            (b.id \in Range(get_subtasks(tasks, a.id))
                        \cup Range(get_workflow_siblings(tasks, a.id))) =>
                \E l \in Range(Connectors(tasks, card_zoom_level, AllCards(render_log))) :
                    Connects(l, a, b)

(***************************************************************************)
(* The zoom factor, over SpecLayout.                                       *)
(***************************************************************************)
\* C25: after any sequence of zoom_in and zoom_out from 1.0 the zoom factor
\* that scales the cards is within [0.5, 2.0].
C25_ZoomWithinRange ==
    /\ ~FloatLess(card_zoom_level, Half)
    /\ ~FloatLess(Two, card_zoom_level)

(***************************************************************************)
(* The workflow accessor of generation 2, over SpecAccess.                 *)
(***************************************************************************)
\* the ids S and the tasks reached from them through workflow edges
RECURSIVE Followers(_, _)
Followers(store, S) ==
    LET next == S \cup {t.id : t \in {u \in Range(store) : u.workflow_sibling_of \in S}}
    IN  IF next = S THEN S ELSE Followers(store, next)

Direct(store, id) == {t.id : t \in {u \in Range(store) : u.workflow_sibling_of = id}}

WorkflowAcyclic(store) ==
    \A t \in Range(store) : t.id \notin Followers(store, Direct(store, t.id))

\* the place of x in the list s
At(s, x) == CHOOSE i \in DOMAIN s : s[i] = x

\* C26: on an acyclic store the generation 2 get_workflow_siblings(t)
\* returns every task reachable from t through one or more workflow edges,
\* each once: first the direct siblings in ascending created order, then the
\* lists of the direct siblings, one direct sibling after the other.
C26_Gen2SiblingsFlattened ==
    (last_op.name = "gen2_get_workflow_siblings" /\ WorkflowAcyclic(tasks)) =>
        LET r == last_op.calls
            direct == Direct(tasks, last_op.task)
            n == Cardinality(direct)
            \* the direct sibling whose list the entry at i belongs to
            branch(i) == CHOOSE d \in direct : r[i] \in Followers(tasks, {d})
        IN  /\ ~last_op.err
            /\ Range(r) = Followers(tasks, direct)
            /\ NoDuplicates(r)
            /\ \A i \in DOMAIN r : r[i] \in direct <=> i <= n
            /\ \A i, j \in 1 .. n :
                   i < j => Get(tasks, r[i]).created <= Get(tasks, r[j]).created
            /\ \A i, j \in DOMAIN r :
                   (n < i /\ i < j) =>
                       At(r, branch(i)) <= At(r, branch(j))

\* the list of task 1: its siblings 3 and 2 against the store order, then
\* task 4, whose workflow_sibling_of is task 2
C26_Witness ==
    /\ last_op.name = "gen2_get_workflow_siblings" /\ last_op.task = 1
    /\ WorkflowAcyclic(tasks)
    /\ last_op.calls = <<3, 2, 4>>
    /\ tasks[4].workflow_sibling_of = 2

\* the number of tasks of the store holding each priority value
PriorityBag(store) ==
    [p \in {t.priority : t \in Range(store)} |->
        Cardinality({i \in DOMAIN store : store[i].priority = p})]

\* the places of the store whose task changes in the step
Changed == {i \in DOMAIN tasks : tasks'[i] # tasks[i]}

\* C27: move_priority_up, move_priority_down and the swap at the end of a
\* drag add and remove no task and change no field other than priority, on
\* at most two tasks; when every stored priority is at least 1 the
\* priorities of the store, counted with repetitions, are the same before
\* and after.
C27_ReorderKeepsTasks ==
    [][(\/ \E t \in Ids(tasks) : move_priority_up(t) \/ move_priority_down(t)
        \/ \E p \in Points : _on_canvas_release(p)) =>
          /\ DOMAIN tasks' = DOMAIN tasks
          /\ \A i \in DOMAIN tasks :
                 [tasks'[i] EXCEPT !.priority = tasks[i].priority] = tasks[i]
          /\ Cardinality(Changed) <= 2
          /\ (\A i \in DOMAIN tasks : tasks[i].priority >= 1) =>
                 PriorityBag(tasks') = PriorityBag(tasks)]_vars

\* three tasks of priorities 2, 5 and 5 after a drag that exchanged the
\* priorities of the first two
C27_Witness ==
    /\ last_op.name = "_on_canvas_release"
    /\ Len(tasks) = 3
    /\ tasks[1].priority = 5 /\ tasks[2].priority = 2 /\ tasks[3].priority = 5
    /\ disk = File(json_dump(tasks))

(***************************************************************************)
(* View claims, over Spec.                                                 *)
(***************************************************************************)
\* the views whose root list holds the task
ViewsOf(id) == {view \in Views : id \in Range(root_tasks(tasks, view, sort_mode))}

\* C28: each task without parent_id and without workflow_sibling_of is in
\* the root list of exactly one of the views todo, done and stash.
C28_RootInOneView ==
    \A t \in Range(tasks) :
        (t.parent_id = NoId /\ t.workflow_sibling_of = NoId) =>
            Cardinality(ViewsOf(t.id)) = 1

\* three root tasks, one in each view, after the last of them was stashed
C28_Witness ==
    /\ \E a, b, c \in Ids(tasks) :
           /\ ViewsOf(a) = {"todo"} /\ ViewsOf(b) = {"done"} /\ ViewsOf(c) = {"stash"}
           /\ IsRoot(Get(tasks, a)) /\ IsRoot(Get(tasks, b)) /\ IsRoot(Get(tasks, c))
    /\ last_op.name = "toggle_stash_status"

(***************************************************************************)
(* Round trip of the priority moves, over SpecRoundTrip.                   *)
(***************************************************************************)
PriorityOf(store) == [i \in DOMAIN store |-> store[i].priority]

DistinctPriorities(store) ==
    \A i, j \in DOMAIN store : i # j => store[i].priority # store[j].priority

\* the state after a first move of the given name changed a store of pairwise
\* distinct priorities
AfterFirst(name) ==
    /\ last_op.name = name
    /\ DistinctPriorities(prev_tasks) /\ tasks # prev_tasks

\* C29: in a store of pairwise distinct priorities, after a
\* move_priority_up(t) that found a neighbour, move_priority_down(t) gives
\* every task the priority it had before the two calls; the same for
\* move_priority_down(t) followed by move_priority_up(t).
\* The second call has a neighbour to exchange with, so it does not return
\* before the swap, and the step it takes restores the priorities.
C29_MoveRoundTrip ==
    /\ [](AfterFirst("move_priority_up") =>
             pc = "idle" /\ Above(last_op.task) # {})
    /\ [](AfterFirst("move_priority_down") =>
             pc = "idle" /\ Below(last_op.task) # {})
    /\ [][/\ (AfterFirst("move_priority_up") /\ move_priority_down(last_op.task)) =>
                 PriorityOf(tasks') = PriorityOf(prev_tasks)
          /\ (AfterFirst("move_priority_down") /\ move_priority_up(last_op.task)) =>
                 PriorityOf(tasks') = PriorityOf(prev_tasks)]_vars

\* three tasks of priorities 0, 2 and 5 after the task of priority 2 was
\* moved up and then down
C29_Witness ==
    /\ last_op.name = "move_priority_down"
    /\ Len(tasks) = 3 /\ DistinctPriorities(tasks)
    /\ tasks = prev_tasks
    /\ Get(tasks, last_op.task).priority = 2

(***************************************************************************)
(* Drag claims, over Spec.  A press on a button region of a card is the    *)
(* step of the handler the region is bound to; a press anywhere else is    *)
(* _on_canvas_click.  The motion handlers assign no field.                 *)
(***************************************************************************)
ButtonPressed ==
    \/ \E task_id \in Visible, title \in ValidTitles :
           \/ add_subtask(task_id, title)
           \/ add_workflow_sibling(task_id, title)
           \/ edit_task(task_id, title)
    \/ \E task_id \in Visible, yes \in BOOLEAN : delete_task(task_id, yes)
    \/ \E task_id \in Visible :
           \/ toggle_done_status(task_id, ButtonStatus(task_id))
           \/ toggle_stash_status(task_id)
    \/ \E task_id \in VisibleRoots :
           move_priority_up(task_id) \/ move_priority_down(task_id)

\* C30: a press on a button region runs the button's handler and starts no
\* drag; a press starts a drag only on the card of a task without parent_id
\* and workflow_sibling_of; while dragging is true drag_task_id is such a
\* task of the store; after a release dragging is false and drag_task_id is
\* None, with or without a swap.
C30_DragOnlyOnRoots ==
    /\ [](dragging =>
             /\ drag_task_id \in Ids(tasks)
             /\ Get(tasks, drag_task_id).parent_id = NoId
             /\ Get(tasks, drag_task_id).workflow_sibling_of = NoId)
    /\ [][/\ ButtonPressed => (~dragging' /\ drag_task_id' = NoId)
          /\ \A p \in Points :
                 /\ _on_canvas_click(p) =>
                        (dragging' => drag_task_id' \in RootsAt(p))
                 /\ _on_canvas_release(p) =>
                        (~dragging' /\ drag_task_id' = NoId)]_vars

\* the mouse held on the card of root task 2 after an earlier drag swapped
\* two priorities, in a store that also holds a subtask
C30_Witness ==
    /\ pc = "pressed" /\ dragging /\ drag_task_id = 2
    /\ last_op.name = "_on_canvas_release"
    /\ \E t \in Range(tasks) : t.parent_id # NoId

=============================================================================
